---- MODULE Spec2Model ----
(***************************************************************************)
(* VocabTime browser client (src/static/app.js): the application state     *)
(* object, the renderer, the lifecycle sequence and the event handlers.    *)
(*                                                                         *)
(* Strings are sequences of one-character strings.  A translation value is *)
(* a record [kind, val]: kind "array" (val a sequence of strings) or kind  *)
(* "string" (val a string).  A nullable object is a sequence of length 0   *)
(* (null) or 1 (the object).                                               *)
(*                                                                         *)
(* An async handler is suspended at each awaited backend call; its         *)
(* continuation is a separate action that fires when the call settles.     *)
(* Between two awaits a handler runs without interruption (one action).    *)
(* A handler can be started again while an earlier call of it is suspended: *)
(* the calls in flight of the lifecycle sequence, of resetAll and of logout *)
(* are bags of instances.                                                  *)
(*                                                                         *)
(* Spec is the client as a whole.  UtilSpec runs the translation-match     *)
(* utility alone, on every raw value of a bounded set.                     *)
(***************************************************************************)
EXTENDS Integers, Sequences, FiniteSets, Bags, TLC

\* ------------------------------------------------------------------------
\* Strings
\* ------------------------------------------------------------------------

SP == " "

IsSpace(c) == c = SP

RECURSIVE TrimLeft(_)
TrimLeft(s) ==
  IF s = <<>> THEN <<>>
  ELSE IF IsSpace(Head(s)) THEN TrimLeft(Tail(s)) ELSE s

RECURSIVE TrimRight(_)
TrimRight(s) ==
  IF s = <<>> THEN <<>>
  ELSE IF IsSpace(s[Len(s)]) THEN TrimRight(SubSeq(s, 1, Len(s) - 1)) ELSE s

\* String.prototype.trim
Trim(s) == TrimRight(TrimLeft(s))

LowerChar(c) ==
  CASE c = "A" -> "a"
    [] c = "B" -> "b"
    [] c = "C" -> "c"
    [] c = "D" -> "d"
    [] OTHER -> c

\* String.prototype.toLowerCase
ToLower(s) == [i \in 1..Len(s) |-> LowerChar(s[i])]

\* String.prototype.includes
Includes(s, sub) ==
  \E i \in 1..(Len(s) - Len(sub) + 1) : SubSeq(s, i, i + Len(sub) - 1) = sub

PrefixAt(s, d, i) ==
  /\ i + Len(d) - 1 <= Len(s)
  /\ SubSeq(s, i, i + Len(d) - 1) = d

RECURSIVE SplitFrom(_, _, _, _)
SplitFrom(s, d, i, cur) ==
  IF i > Len(s) THEN <<cur>>
  ELSE IF PrefixAt(s, d, i) THEN <<cur>> \o SplitFrom(s, d, i + Len(d), <<>>)
  ELSE SplitFrom(s, d, i + 1, Append(cur, s[i]))

\* String.prototype.split with a non-empty string separator
Split(s, d) == SplitFrom(s, d, 1, <<>>)

RECURSIVE Join(_, _)
\* Array.prototype.join
Join(parts, sep) ==
  IF parts = <<>> THEN <<>>
  ELSE IF Len(parts) = 1 THEN parts[1]
  ELSE parts[1] \o sep \o Join(Tail(parts), sep)

RECURSIVE FilterNonEmpty(_)
\* .filter(Boolean) on an array of strings
FilterNonEmpty(parts) ==
  IF parts = <<>> THEN <<>>
  ELSE IF Head(parts) = <<>> THEN FilterNonEmpty(Tail(parts))
  ELSE <<Head(parts)>> \o FilterNonEmpty(Tail(parts))

MapTrim(parts) == [i \in 1..Len(parts) |-> Trim(parts[i])]

Str(s) == [kind |-> "string", val |-> s]
Arr(a) == [kind |-> "array", val |-> a]

\* (s || "").toString() of a translation or string field
ToStringOf(t) == IF t.kind = "array" THEN Join(t.val, <<",">>) ELSE t.val

\* _norm
Norm(t) == ToLower(Trim(ToStringOf(t)))

\* ------------------------------------------------------------------------
\* Translation-match utility
\* ------------------------------------------------------------------------

RECURSIVE SkipSpaces(_, _)
SkipSpaces(s, i) ==
  IF i <= Len(s) /\ IsSpace(s[i]) THEN SkipSpaces(s, i + 1) ELSE i

RECURSIVE ScanString(_, _)
\* index of the closing quote of a JSON string opened before index i, or 0
ScanString(s, i) ==
  IF i > Len(s) THEN 0
  ELSE IF s[i] = "\"" THEN i
  ELSE IF s[i] = "\\" THEN 0
  ELSE ScanString(s, i + 1)

RECURSIVE ParseArray(_, _)
RECURSIVE ParseElems(_, _, _)

JSONFail == [ok |-> FALSE, items |-> <<>>, next |-> 0]

\* the JSON array opening at index i: its elements, each as x.toString() gives
\* it (a string as itself, a nested array as its elements joined by ","), and
\* the index after the closing bracket
ParseArray(s, i) ==
  LET b == SkipSpaces(s, i + 1) IN
  IF b <= Len(s) /\ s[b] = "]" THEN [ok |-> TRUE, items |-> <<>>, next |-> b + 1]
  ELSE ParseElems(s, i + 1, <<>>)

\* the elements of a JSON array from index i (after "[" or ",")
ParseElems(s, i, acc) ==
  LET a == SkipSpaces(s, i) IN
  IF a > Len(s) THEN JSONFail
  ELSE
    LET v == IF s[a] = "\""
             THEN LET q == ScanString(s, a + 1) IN
                  IF q = 0 THEN JSONFail
                  ELSE [ok |-> TRUE, items |-> <<SubSeq(s, a + 1, q - 1)>>, next |-> q + 1]
             ELSE IF s[a] = "["
             THEN LET n == ParseArray(s, a) IN
                  IF n.ok
                  THEN [ok |-> TRUE, items |-> <<Join(n.items, <<",">>)>>, next |-> n.next]
                  ELSE JSONFail
             ELSE JSONFail
    IN
    IF ~v.ok THEN JSONFail
    ELSE LET b == SkipSpaces(s, v.next)
             acc2 == acc \o v.items IN
      IF b > Len(s) THEN JSONFail
      ELSE IF s[b] = "," THEN ParseElems(s, b + 1, acc2)
      ELSE IF s[b] = "]" THEN [ok |-> TRUE, items |-> acc2, next |-> b + 1]
      ELSE JSONFail

\* JSON.parse(t) restricted to its use at app.js:224-225: ok iff t is the JSON
\* text of an array (here: of strings without escapes and of such arrays); any
\* other text either throws or parses to a non-array, and both fall through.
JSONParseArray(t) ==
  LET a == SkipSpaces(t, 1) IN
  IF a > Len(t) \/ t[a] # "[" THEN JSONFail
  ELSE LET r == ParseArray(t, a) IN
    IF r.ok /\ SkipSpaces(t, r.next) > Len(t) THEN r ELSE JSONFail

\* _toTranslationsArray
ToTranslationsArray(t) ==
  IF t.kind = "array" THEN FilterNonEmpty(MapTrim(t.val))
  ELSE IF t.val = <<>> THEN <<>>
  ELSE LET parsed == JSONParseArray(t.val) IN
    IF parsed.ok THEN FilterNonEmpty(MapTrim(parsed.items))
    ELSE IF Includes(t.val, <<"|", "|">>)
      THEN FilterNonEmpty(MapTrim(Split(t.val, <<"|", "|">>)))
    ELSE IF Includes(t.val, <<"|">>)
      THEN FilterNonEmpty(MapTrim(Split(t.val, <<"|">>)))
    ELSE LET parts == FilterNonEmpty(MapTrim(Split(t.val, <<",">>))) IN
      IF Includes(t.val, <<",">>) /\ Len(parts) > 1 THEN parts
      ELSE <<Trim(t.val)>>

\* formatTranslation
FormatTranslation(t) == Join(ToTranslationsArray(t), <<" ", "/", " ">>)

\* _matchesTranslation
MatchesTranslation(answer, translation) ==
  LET alts == ToTranslationsArray(translation) IN
  \E i \in 1..Len(alts) : Norm(Str(alts[i])) = Norm(Str(answer))

\* ------------------------------------------------------------------------
\* Backend data the client can receive
\* ------------------------------------------------------------------------

Today == "2026-10-30"
Past == "2026-10-29"

\* an ISO date-time as <<calendar date, time of day>>
IsoDate(ymd) == <<ymd, "T00:00:00.000Z">>

\* fmtDate: new Date(iso).toISOString().slice(0, 10)
FmtDate(iso) == iso[1]

sCat == <<"c", "a", "t">>
sDog == <<"d", "o", "g">>

tBare == Str(sCat)
tArray == Arr(<<sDog, sCat>>)
tPipes == Str(sCat \o <<"|", "|">> \o sDog)
tPipe == Str(sCat \o <<"|">> \o sDog)
tComma == Str(sCat \o <<",", " ">> \o sDog)

Item(id, ymd, dn, w, t) ==
  [id |-> id, date |-> IsoDate(ymd), day_no |-> dn, word |-> w, translation |-> t]

ListA == << Item(1, Past, 1, <<"a">>, tBare), Item(2, Past, 2, <<"b">>, tArray) >>
ListB == ListA \o << Item(4, Today, 4, <<"a", "b">>, tPipes) >>
ListC == << Item(2, Past, 2, <<"b">>, tPipe), Item(4, Today, 4, <<"a", "b">>, tComma) >>

\* length of the long list (three table pages)
BigLen == 21

BigList ==
  [i \in 1..BigLen |->
     Item(i, IF i = BigLen THEN Today ELSE Past, i,
          IF i <= 12 THEN <<"a", "b">> ELSE <<"a">>, tBare)]

Lists == {<<>>, ListA, ListB, ListC, BigList}

\* GET /vocab/list: a failure, or {items}
ListResponses ==
  {[ok |-> FALSE, items |-> <<>>]} \cup {[ok |-> TRUE, items |-> l] : l \in Lists}

\* GET /vocab/random?limit=1: a failure, or {items} with zero or one item
RandomResponses ==
  { [ok |-> FALSE, items |-> <<>>], [ok |-> TRUE, items |-> <<>>],
    [ok |-> TRUE, items |-> <<ListA[1]>>] }

\* POST /vocab/today/auto: a failure, or {item} given by its day_no (0: no item)
TodayResponses ==
  { [ok |-> FALSE, day_no |-> 0], [ok |-> TRUE, day_no |-> 0], [ok |-> TRUE, day_no |-> 4] }

\* the list the backend serves after today/auto returned an item holds that item
ListHolds(items, dn) ==
  dn = 0 \/ \E i \in 1..Len(items) : items[i].day_no = dn /\ FmtDate(items[i].date) = Today

Session == [email |-> <<"u">>]

\* what the user types and requests
Answers == { <<>>, <<" ", "C", "a", "t">>, <<"g", "o">> }
SearchTexts == { <<>>, <<"B">>, <<"z">> }
PageNumbers == {0, 1, 2, 3, 5}
PageRequests ==
  {[nan |-> TRUE, n |-> 0]} \cup {[nan |-> FALSE, n |-> p] : p \in PageNumbers}
NoReq == [nan |-> TRUE, n |-> 0]
RevealIds == {1, 2}
\* the options the user picks in the day select, when they are offered
DayChoices == {1, 2, 4, BigLen}

\* ------------------------------------------------------------------------
\* State
\* ------------------------------------------------------------------------

VARIABLES
  me, vocab, random, day, answer, check, view, revealed, listSearch, listPage,
  dom,      \* what render() last mounted, with the values its closures captured
  rendered, \* the last step's call of render(): "no" (none), "ok", "threw"
  init,     \* the lifecycle sequences (boot / sign-up / sign-in / initAfterAuth):
            \* a bag of instances, the finished ones included
  reset,    \* the resetAll calls in flight: a bag of positions
  logout,   \* the logout calls: a bag of instances, the finished ones included
  page,     \* "live", "leaving" (location.replace called), "gone"
  op,       \* the handler step taken last
  notice,   \* the alert raised by the last step
  req,      \* the page number requested by the last handlePageChange
  events,   \* the number of user events delivered so far
  pageIn,   \* state.listPage when the last step called render() (0: no call)
  util      \* a run of the translation-match utility on its own

appVars == <<me, vocab, random, day, answer, check, view, revealed, listSearch, listPage>>
vars == <<me, vocab, random, day, answer, check, view, revealed, listSearch, listPage,
          dom, rendered, init, reset, logout, page, op, notice, req, events,
          pageIn, util>>

NoCheck == [kind |-> "null", gold |-> <<>>]

PageSize == 10

\* ------------------------------------------------------------------------
\* View builders and renderer
\* ------------------------------------------------------------------------

CurrentItemOrFirst(vc, d) ==
  LET hits == SelectSeq(vc, LAMBDA x : x.day_no = d) IN
  IF Len(vc) = 0 THEN <<>> ELSE IF hits = <<>> THEN <<vc[1]>> ELSE <<hits[1]>>

\* currentItem: null (<<>>) or the first item whose day_no is the selected day
CurrentItem(vc, d) ==
  LET hits == SelectSeq(vc, LAMBDA x : x.day_no = d) IN
  IF Len(vc) = 0 \/ hits = <<>> THEN <<>> ELSE <<hits[1]>>

\* last day_no of the list, 1 when empty (goNextDay, checkAnswer)
MaxDay(vc) == IF Len(vc) > 0 THEN vc[Len(vc)].day_no ELSE 1

\* isTodaySet
IsTodaySet(vc) == \E i \in 1..Len(vc) : FmtDate(vc[i].date) = Today

\* PracticeCard reads item.day_no whenever the list is non-empty
PracticeCardThrows(vc, d) == Len(vc) > 0 /\ CurrentItem(vc, d) = <<>>

\* ListTable: the rows matching the search text
FilteredRows(vc, ls) ==
  LET searchLower == Norm(Str(ls)) IN
  SelectSeq(vc, LAMBDA r :
    \/ searchLower = <<>>
    \/ Includes(Norm(Str(r.word)), searchLower)
    \/ Includes(Norm(r.translation), searchLower))

\* Math.ceil(n / pageSize)
TotalPages(n) == (n + PageSize - 1) \div PageSize

\* ListTable: the two clamping statements
ClampPage(lp, totalPages) ==
  LET a == IF lp > totalPages /\ totalPages > 0 THEN totalPages ELSE lp IN
  IF a < 1 THEN 1 ELSE a

BlankDom(v) ==
  [view |-> v, me |-> FALSE, has |-> FALSE, options |-> {}, total |-> 0,
   prevOff |-> TRUE, nextOff |-> TRUE, rows |-> {}]

\* MainView: Header, RandomCard, PracticeCard, then ListTable
MainViewOut(m, vc, d, ls, lp) ==
  IF PracticeCardThrows(vc, d)
  THEN [threw |-> TRUE, listPage |-> lp, dom |-> BlankDom("none")]
  ELSE
    LET rows == FilteredRows(vc, ls)
        totalPages == TotalPages(Len(rows))
        p == ClampPage(lp, totalPages)
        start == (p - 1) * PageSize
        shown == {rows[i].id : i \in {j \in 1..Len(rows) : j > start /\ j <= start + PageSize}}
    IN [threw |-> FALSE, listPage |-> p,
        dom |-> [view |-> "main", me |-> m # <<>>, has |-> Len(vc) > 0,
                 options |-> {vc[i].day_no : i \in 1..Len(vc)},
                 total |-> totalPages, prevOff |-> p <= 1, nextOff |-> p >= totalPages,
                 rows |-> shown]]

\* render: clears the root, builds the view selected by view, mounts it
Render(v, m, vc, d, ls, lp) ==
  IF v = "loading" THEN [threw |-> FALSE, listPage |-> lp, dom |-> BlankDom("loading")]
  ELSE IF v = "auth" THEN [threw |-> FALSE, listPage |-> lp, dom |-> BlankDom("auth")]
  ELSE MainViewOut(m, vc, d, ls, lp)

\* ------------------------------------------------------------------------
\* Initial state: the state object as constructed, nothing mounted yet
\* ------------------------------------------------------------------------

\* an instance of the lifecycle sequence before its first step; today: the
\* today-ensure requests the instance has issued
IdleInit == [pc |-> "idle", origin |-> "none", r |-> 0, renders |-> 0, today |-> 0]
\* an instance of logout at its first await
NewLogout == [pc |-> "post", reqs |-> 1]

\* the bag holding x once
One(x) == SetToBag({x})
\* an instance of the bag goes from old to new
Move(bag, old, new) == (bag (-) One(old)) (+) One(new)

\* no run of the utility on its own
UtilOff ==
  [pc |-> "off", t |-> Str(<<>>), alts |-> <<>>, shown |-> <<>>, again |-> <<>>,
   answer |-> <<>>, matched |-> FALSE]

AppInit ==
  /\ me = <<>> /\ vocab = <<>> /\ random = <<>> /\ day = 1
  /\ answer = <<>> /\ check = NoCheck /\ view = "loading"
  /\ revealed = {} /\ listSearch = <<>> /\ listPage = 1
  /\ dom = BlankDom("none") /\ rendered = "no"
  /\ init = EmptyBag /\ reset = EmptyBag /\ logout = EmptyBag
  /\ page = "live" /\ op = "none" /\ notice = "none" /\ req = NoReq
  /\ events = 0 /\ pageIn = 0

Init == AppInit /\ util = UtilOff

\* the number of user events a behaviour delivers
MaxEvents == 2

\* the document is not unloaded: a backend call of this page can still
\* settle and an event can still be delivered
Running == page # "gone"
\* a user event can be delivered to an element of the mounted main view
MainLive == Running /\ dom.view = "main" /\ events < MaxEvents

\* a continuation of an async handler
Step(name, alert) ==
  op' = name /\ notice' = alert /\ req' = NoReq /\ events' = events /\ util' = util
\* a handler started by a user event
UserStep(name, alert) ==
  op' = name /\ notice' = alert /\ req' = NoReq /\ events' = events + 1 /\ util' = util

\* the effect of render() called on the state given
Mount(v, m, vc, d, ls, lp) ==
  LET out == Render(v, m, vc, d, ls, lp) IN
  /\ listPage' = out.listPage /\ dom' = out.dom
  /\ rendered' = IF out.threw THEN "threw" ELSE "ok"
  /\ pageIn' = lp

\* the step does not call render()
NoRender == dom' = dom /\ rendered' = "no" /\ pageIn' = 0

Threw(v, m, vc, d, ls, lp) == Render(v, m, vc, d, ls, lp).threw

\* ------------------------------------------------------------------------
\* Lifecycle: boot, signup, signin, signinDirect, initAfterAuth
\* ------------------------------------------------------------------------

\* boot up to the await inside loadMe
Boot ==
  /\ page = "live" /\ op = "none"
  /\ view' = "loading"
  /\ Mount("loading", me, vocab, day, listSearch, listPage)
  /\ init' = init (+) One([IdleInit EXCEPT !.pc = "me", !.origin = "boot"])
  /\ Step("boot", "none")
  /\ UNCHANGED <<me, vocab, random, day, answer, check, revealed, listSearch,
                 reset, logout, page>>

\* a user event can be delivered to a form of the mounted auth view
AuthLive == Running /\ dom.view = "auth" /\ events < MaxEvents

\* signup up to the await of POST /signup
Signup(filled) ==
  /\ AuthLive
  /\ IF filled
     THEN init' = init (+) One([IdleInit EXCEPT !.pc = "signup", !.origin = "signup"])
          /\ UserStep("signup", "none")
     ELSE init' = init /\ UserStep("signup", "validation")
  /\ UNCHANGED <<appVars, reset, logout, page>> /\ NoRender

\* signup after POST /signup settled; on success signinDirect up to its await
SignupResponse(ok) ==
  /\ Running
  /\ \E i \in BagToSet(init) :
       /\ i.pc = "signup"
       /\ IF ok
          THEN init' = Move(init, i, [i EXCEPT !.pc = "signin"])
               /\ Step("signupResponse", "none")
          ELSE init' = Move(init, i, [i EXCEPT !.pc = "failed"])
               /\ Step("signupResponse", "signup_failed")
  /\ UNCHANGED <<appVars, reset, logout, page>> /\ NoRender

\* signin -> signinDirect up to the await of POST /signin
Signin(filled) ==
  /\ AuthLive
  /\ IF filled
     THEN init' = init (+) One([IdleInit EXCEPT !.pc = "signin", !.origin = "signin"])
          /\ UserStep("signin", "none")
     ELSE init' = init /\ UserStep("signin", "validation")
  /\ UNCHANGED <<appVars, reset, logout, page>> /\ NoRender

\* signinDirect after POST /signin settled; on success initAfterAuth up to loadMe's await
SigninResponse(ok) ==
  /\ Running
  /\ \E i \in BagToSet(init) :
       /\ i.pc = "signin"
       /\ IF ok
          THEN init' = Move(init, i, [i EXCEPT !.pc = "me"])
               /\ Step("signinResponse", "none")
          ELSE init' = Move(init, i, [i EXCEPT !.pc = "failed"])
               /\ Step("signinResponse", "signin_failed")
  /\ UNCHANGED <<appVars, reset, logout, page>> /\ NoRender

\* the alert of signinDirect's catch when initAfterAuth rejects (boot: unhandled)
InitCatch(i, threw) ==
  IF threw /\ i.origin # "boot" THEN "render_error" ELSE "none"

\* loadMe after GET /me settled; initAfterAuth up to loadList's await, or its end
MeResponse(ok) ==
  /\ Running
  /\ \E i \in BagToSet(init) :
       /\ i.pc = "me"
       /\ IF ok
          THEN /\ me' = <<Session>> /\ view' = "main"
               /\ init' = Move(init, i, [i EXCEPT !.pc = "list"])
               /\ Step("meResponse", "none")
               /\ UNCHANGED listPage /\ NoRender
          ELSE /\ me' = <<>> /\ view' = "auth"
               /\ Mount("auth", <<>>, vocab, day, listSearch, listPage)
               /\ init' = Move(init, i, [i EXCEPT !.pc = "done", !.renders = @ + 1])
               /\ Step("meResponse", "none")
  /\ UNCHANGED <<vocab, random, day, answer, check, revealed, listSearch,
                 reset, logout, page>>

LoadedVocabKept(resp) == IF resp.ok THEN resp.items ELSE vocab

\* loadList: the list it stores and the day it selects
LoadedVocab(resp) == IF resp.ok THEN resp.items ELSE <<>>
LoadedDay(resp) == 1

\* refreshRandom: the pick it stores
LoadedRandom(resp) ==
  IF resp.ok /\ Len(resp.items) > 0 THEN <<resp.items[1]>> ELSE <<>>

\* loadList after GET /vocab/list settled; initAfterAuth up to the next await
InitListResponse(resp) ==
  /\ Running
  /\ \E i \in BagToSet(init) :
       /\ i.pc = "list"
       /\ init' = IF IsTodaySet(LoadedVocab(resp))
                   THEN Move(init, i, [i EXCEPT !.pc = "random"])
                   ELSE Move(init, i, [i EXCEPT !.pc = "today", !.today = @ + 1])
  /\ vocab' = LoadedVocab(resp) /\ day' = LoadedDay(resp)
  /\ Step(IF resp.ok THEN "initListResponse" ELSE "initListFailed", "none")
  /\ UNCHANGED <<me, random, answer, check, view, revealed, listSearch, listPage, reset, logout, page>> /\ NoRender

\* the else branch: refreshRandom settled, then the manual render
InitRandomResponse(resp) ==
  /\ Running
  /\ \E i \in BagToSet(init) :
       /\ i.pc = "random"
       /\ init' = Move(init, i, [i EXCEPT !.pc = "done", !.renders = @ + 1])
       /\ Step("initRandomResponse",
               InitCatch(i, Threw(view, me, vocab, day, listSearch, listPage)))
  /\ random' = LoadedRandom(resp)
  /\ Mount(view, me, vocab, day, listSearch, listPage)
  /\ UNCHANGED <<me, vocab, day, answer, check, view, revealed, listSearch,
                 reset, logout, page>>

\* whether initAfterAuth renders after addTodayPrompt(false) returned
NeedsManualRender(todayOk) == FALSE

\* addTodayPrompt after POST /vocab/today/auto settled: on failure its catch
\* alerts, it returns, and initAfterAuth runs to its end
TodayResponse(resp) ==
  /\ Running
  /\ \E i \in BagToSet(init) :
       /\ i.pc = "today"
       /\ IF resp.ok
          THEN /\ init' = Move(init, i, [i EXCEPT !.pc = "list2", !.r = resp.day_no])
               /\ Step("todayResponse", "none")
               /\ UNCHANGED listPage /\ NoRender
          ELSE /\ IF NeedsManualRender(FALSE)
                  THEN /\ Mount(view, me, vocab, day, listSearch, listPage)
                       /\ init' = Move(init, i, [i EXCEPT !.pc = "done", !.renders = @ + 1])
                  ELSE /\ init' = Move(init, i, [i EXCEPT !.pc = "done"])
                       /\ UNCHANGED listPage /\ NoRender
               /\ Step("todayResponse", "today_failed")
  /\ UNCHANGED <<me, vocab, random, day, answer, check, view, revealed, listSearch,
                 reset, logout, page>>

\* addTodayPrompt: loadList settled
TodayListResponse(resp) ==
  /\ Running
  /\ \E i \in BagToSet(init) :
       /\ i.pc = "list2"
       /\ resp.ok => ListHolds(resp.items, i.r)
       /\ init' = Move(init, i, [i EXCEPT !.pc = "random2"])
  /\ vocab' = LoadedVocab(resp) /\ day' = LoadedDay(resp)
  /\ Step(IF resp.ok THEN "todayListResponse" ELSE "todayListFailed", "none")
  /\ UNCHANGED <<me, random, answer, check, view, revealed, listSearch, listPage, reset, logout, page>> /\ NoRender

TodayDayKept(r, d) == d

\* addTodayPrompt: the day selected from the response
TodayDay(r, d) == IF r # 0 THEN r ELSE d

\* addTodayPrompt: refreshRandom settled, the day is set, render; a throw of
\* render is caught by addTodayPrompt's own catch; initAfterAuth runs to its end
TodayRandomResponse(resp) ==
  /\ Running
  /\ \E i \in BagToSet(init) :
       /\ i.pc = "random2"
       /\ day' = TodayDay(i.r, day)
       /\ Mount(view, me, vocab, TodayDay(i.r, day), listSearch, listPage)
       /\ IF NeedsManualRender(TRUE)
          THEN init' = Move(init, i, [i EXCEPT !.pc = "done", !.r = 0, !.renders = @ + 2])
          ELSE init' = Move(init, i, [i EXCEPT !.pc = "done", !.r = 0, !.renders = @ + 1])
       /\ Step("todayRandomResponse",
               IF Threw(view, me, vocab, TodayDay(i.r, day), listSearch, listPage)
               THEN "render_error" ELSE "none")
  /\ random' = LoadedRandom(resp)
  /\ UNCHANGED <<me, vocab, answer, check, view, revealed, listSearch,
                 reset, logout, page>>

\* ------------------------------------------------------------------------
\* resetAll
\* ------------------------------------------------------------------------

\* resetAll up to the await of POST /vocab/reset (the header button exists
\* when a session was set at render time)
ResetAll(confirmed) ==
  /\ MainLive /\ dom.me
  /\ reset' = IF confirmed THEN reset (+) One("post") ELSE reset
  /\ UserStep("resetAll", "none")
  /\ UNCHANGED <<appVars, init, logout, page>> /\ NoRender

ResetValueEarly(ok, old, cleared) == cleared

\* resetAll: a field is cleared inside the try, after the awaited POST succeeded
ResetValue(ok, old, cleared) == IF ok THEN cleared ELSE old

\* resetAll after POST /vocab/reset settled, up to loadList's await
ResetResponse(ok) ==
  /\ Running /\ BagIn("post", reset)
  /\ vocab' = ResetValue(ok, vocab, <<>>)
  /\ random' = ResetValue(ok, random, <<>>)
  /\ day' = ResetValue(ok, day, 1)
  /\ answer' = ResetValue(ok, answer, <<>>)
  /\ check' = ResetValue(ok, check, NoCheck)
  /\ listSearch' = ResetValue(ok, listSearch, <<>>)
  /\ listPage' = ResetValue(ok, listPage, 1)
  /\ revealed' = ResetValue(ok, revealed, {})
  /\ IF ok
     THEN reset' = Move(reset, "post", "list") /\ Step("resetResponse", "none")
     ELSE reset' = reset (-) One("post") /\ Step("resetResponse", "reset_failed")
  /\ UNCHANGED <<me, view, init, logout, page>> /\ NoRender

\* resetAll: loadList settled
ResetListResponse(resp) ==
  /\ Running /\ BagIn("list", reset)
  /\ vocab' = LoadedVocab(resp) /\ day' = LoadedDay(resp)
  /\ reset' = Move(reset, "list", "random")
  /\ Step(IF resp.ok THEN "resetListResponse" ELSE "resetListFailed", "none")
  /\ UNCHANGED <<me, random, answer, check, view, revealed, listSearch, listPage, init, logout, page>> /\ NoRender

\* resetAll: refreshRandom settled, render, the success alert (the catch's
\* alert when render throws)
ResetRandomResponse(resp) ==
  /\ Running /\ BagIn("random", reset)
  /\ random' = LoadedRandom(resp)
  /\ Mount(view, me, vocab, day, listSearch, listPage)
  /\ reset' = reset (-) One("random")
  /\ Step("resetRandomResponse",
          IF Threw(view, me, vocab, day, listSearch, listPage)
          THEN "render_error" ELSE "reset_ok")
  /\ UNCHANGED <<me, vocab, day, answer, check, view, revealed, listSearch,
                 init, logout, page>>

\* ------------------------------------------------------------------------
\* logout
\* ------------------------------------------------------------------------

\* the local part of logout: clear the state, render, replace the location
LogoutFinish(name) ==
  /\ me' = <<>> /\ vocab' = <<>> /\ random' = <<>> /\ day' = 1
  /\ answer' = <<>> /\ check' = NoCheck /\ listSearch' = <<>>
  /\ view' = "auth"
  /\ Mount("auth", <<>>, <<>>, 1, <<>>, 1)
  /\ page' = "leaving"
  /\ Step(name, "none")
  /\ UNCHANGED <<revealed, init, reset>>

\* logout up to the await of POST /logout
Logout ==
  /\ MainLive /\ dom.me
  /\ logout' = logout (+) One(NewLogout)
  /\ UserStep("logout", "none")
  /\ UNCHANGED <<appVars, init, reset, page>> /\ NoRender

\* logout after POST /logout settled: the fallback GET when it failed
LogoutPostResponse(ok) ==
  /\ Running
  /\ \E i \in BagToSet(logout) :
       /\ i.pc = "post"
       /\ IF ok
          THEN /\ logout' = Move(logout, i, [i EXCEPT !.pc = "done"])
               /\ LogoutFinish("logoutPostResponse")
          ELSE /\ logout' = Move(logout, i, [pc |-> "get", reqs |-> i.reqs + 1])
               /\ Step("logoutPostResponse", "none")
               /\ UNCHANGED <<appVars, init, reset, page>> /\ NoRender

LogoutProceedsOnAck(ok) == ok

\* logout: the fallback's own try/catch swallows its failure
LogoutProceeds(ok) == TRUE

\* logout after the fallback GET /logout settled, whatever its outcome
LogoutGetResponse(ok) ==
  /\ Running
  /\ \E i \in BagToSet(logout) :
       /\ i.pc = "get"
       /\ IF LogoutProceeds(ok)
          THEN /\ logout' = Move(logout, i, [i EXCEPT !.pc = "done"])
               /\ LogoutFinish("logoutGetResponse")
          ELSE /\ logout' = Move(logout, i, [i EXCEPT !.pc = "failed"])
               /\ Step("logoutGetResponse", "none")
               /\ UNCHANGED <<appVars, init, reset, page>> /\ NoRender

\* the navigation started by location.replace commits: the page is gone
Unload ==
  /\ page = "leaving"
  /\ page' = "gone"
  /\ UNCHANGED <<appVars, dom, rendered, init, reset, logout, op, notice, req, events,
                 pageIn, util>>

\* ------------------------------------------------------------------------
\* Practice panel
\* ------------------------------------------------------------------------

CanGoPrevFromZero(d) == d > 0

\* goPrevDay: its guard
CanGoPrev(d) == d > 1

CanGoNextAtMax(d, vc) == d <= MaxDay(vc)

\* goNextDay: its guard
CanGoNext(d, vc) == d < MaxDay(vc)

goPrevDay ==
  /\ MainLive
  /\ IF CanGoPrev(day)
     THEN /\ day' = day - 1 /\ answer' = <<>> /\ check' = NoCheck
          /\ Mount(view, me, vocab, day - 1, listSearch, listPage)
     ELSE UNCHANGED <<day, answer, check, listPage>> /\ NoRender
  /\ UserStep("goPrevDay", "none")
  /\ UNCHANGED <<me, vocab, random, view, revealed, listSearch, init, reset, logout, page>>

goNextDay ==
  /\ MainLive
  /\ IF CanGoNext(day, vocab)
     THEN /\ day' = day + 1 /\ answer' = <<>> /\ check' = NoCheck
          /\ Mount(view, me, vocab, day + 1, listSearch, listPage)
     ELSE UNCHANGED <<day, answer, check, listPage>> /\ NoRender
  /\ UserStep("goNextDay", "none")
  /\ UNCHANGED <<me, vocab, random, view, revealed, listSearch, init, reset, logout, page>>

\* the select offers the day_no of every item of the list as rendered
setDayFromSelect(n) ==
  /\ MainLive /\ n \in dom.options
  /\ day' = n /\ answer' = <<>> /\ check' = NoCheck
  /\ Mount(view, me, vocab, n, listSearch, listPage)
  /\ UserStep("setDayFromSelect", "none")
  /\ UNCHANGED <<me, vocab, random, view, revealed, listSearch, init, reset, logout, page>>

\* the answer input's onInput (the input exists when the list was non-empty)
InputAnswer(a) ==
  /\ MainLive /\ dom.has
  /\ answer' = a
  /\ UserStep("inputAnswer", "none")
  /\ UNCHANGED <<me, vocab, random, day, check, view, revealed, listSearch, listPage, init, reset, logout, page>> /\ NoRender

\* the clear button's onClick
ClearAnswer ==
  /\ MainLive /\ dom.has
  /\ answer' = <<>> /\ check' = NoCheck
  /\ Mount(view, me, vocab, day, listSearch, listPage)
  /\ UserStep("clearAnswer", "none")
  /\ UNCHANGED <<me, vocab, random, day, view, revealed, listSearch, init, reset, logout, page>>

\* checkAnswer: the text shown as the expected answer on a mismatch
Gold(t) == IF t.kind = "array" THEN Join(t.val, <<" ", "/", " ">>) ELSE t.val

NextDayAlways(d, vc) == d + 1

\* checkAnswer: the day after a correct answer
NextDayAfterOk(d, vc) == IF d < MaxDay(vc) THEN d + 1 ELSE d

checkAnswer ==
  /\ MainLive /\ dom.has
  /\ LET item == CurrentItem(vocab, day) IN
     IF item = <<>>
     THEN /\ UserStep("checkAnswer", "no_item")
          /\ UNCHANGED <<day, answer, check, listPage>> /\ NoRender
     ELSE IF MatchesTranslation(answer, item[1].translation)
     THEN /\ day' = NextDayAfterOk(day, vocab)
          /\ answer' = <<>>
          /\ check' = [kind |-> "ok", gold |-> <<>>]
          /\ Mount(view, me, vocab, NextDayAfterOk(day, vocab), listSearch, listPage)
          /\ UserStep("checkAnswer", IF day < MaxDay(vocab) THEN "none" ELSE "all_done")
     ELSE /\ check' = [kind |-> "ng", gold |-> Gold(item[1].translation)]
          /\ Mount(view, me, vocab, day, listSearch, listPage)
          /\ UserStep("checkAnswer", "none")
          /\ UNCHANGED <<day, answer>>
  /\ UNCHANGED <<me, vocab, random, view, revealed, listSearch, init, reset, logout, page>>

\* ------------------------------------------------------------------------
\* List table
\* ------------------------------------------------------------------------

\* keyOfRow for rows that carry an id
toggleReveal(k) ==
  /\ MainLive /\ k \in dom.rows /\ k \in RevealIds
  /\ revealed' = IF k \in revealed THEN revealed \ {k} ELSE revealed \cup {k}
  /\ Mount(view, me, vocab, day, listSearch, listPage)
  /\ UserStep("toggleReveal", "none")
  /\ UNCHANGED <<me, vocab, random, day, answer, check, view, listSearch, init, reset, logout, page>>

\* the search input's onChange
SearchChange(s) ==
  /\ MainLive
  /\ listSearch' = s
  /\ Mount(view, me, vocab, day, s, 1)
  /\ UserStep("searchChange", "none")
  /\ UNCHANGED <<me, vocab, random, day, answer, check, view, revealed, init, reset, logout, page>>

\* prevButton's onClick
PagePrev ==
  /\ MainLive /\ ~dom.prevOff
  /\ IF listPage > 1
     THEN Mount(view, me, vocab, day, listSearch, listPage - 1)
     ELSE UNCHANGED listPage /\ NoRender
  /\ UserStep("pagePrev", "none")
  /\ UNCHANGED <<me, vocab, random, day, answer, check, view, revealed, listSearch,
                 init, reset, logout, page>>

\* nextButton's onClick; totalPages is the value captured at render time
PageNext ==
  /\ MainLive /\ ~dom.nextOff
  /\ IF listPage < dom.total
     THEN Mount(view, me, vocab, day, listSearch, listPage + 1)
     ELSE UNCHANGED listPage /\ NoRender
  /\ UserStep("pageNext", "none")
  /\ UNCHANGED <<me, vocab, random, day, answer, check, view, revealed, listSearch,
                 init, reset, logout, page>>

PageAcceptedNoMax(r, totalPages) == ~r.nan /\ r.n >= 1

\* handlePageChange: whether the parsed page number is accepted
PageAccepted(r, totalPages) ==
  LET maxPage == IF totalPages > 0 THEN totalPages ELSE 1 IN
  ~r.nan /\ r.n >= 1 /\ r.n <= maxPage

\* handlePageChange (blur or Enter on the page input)
handlePageChange(r) ==
  /\ MainLive
  /\ IF PageAccepted(r, dom.total) /\ listPage # r.n
     THEN Mount(view, me, vocab, day, listSearch, r.n)
     ELSE UNCHANGED listPage /\ NoRender
  /\ op' = "handlePageChange" /\ notice' = "none" /\ req' = r /\ events' = events + 1
  /\ util' = util
  /\ UNCHANGED <<me, vocab, random, day, answer, check, view, revealed, listSearch,
                 init, reset, logout, page>>

\* ------------------------------------------------------------------------
\* Specification
\* ------------------------------------------------------------------------

Next ==
  \/ Boot
  \/ \E f \in BOOLEAN : Signup(f)
  \/ \E ok \in BOOLEAN : SignupResponse(ok)
  \/ \E f \in BOOLEAN : Signin(f)
  \/ \E ok \in BOOLEAN : SigninResponse(ok)
  \/ \E ok \in BOOLEAN : MeResponse(ok)
  \/ \E resp \in ListResponses : InitListResponse(resp)
  \/ \E resp \in RandomResponses : InitRandomResponse(resp)
  \/ \E resp \in TodayResponses : TodayResponse(resp)
  \/ \E resp \in ListResponses : TodayListResponse(resp)
  \/ \E resp \in RandomResponses : TodayRandomResponse(resp)
  \/ \E c \in BOOLEAN : ResetAll(c)
  \/ \E ok \in BOOLEAN : ResetResponse(ok)
  \/ \E resp \in ListResponses : ResetListResponse(resp)
  \/ \E resp \in RandomResponses : ResetRandomResponse(resp)
  \/ Logout
  \/ \E ok \in BOOLEAN : LogoutPostResponse(ok)
  \/ \E ok \in BOOLEAN : LogoutGetResponse(ok)
  \/ Unload
  \/ goPrevDay
  \/ goNextDay
  \/ \E n \in DayChoices : setDayFromSelect(n)
  \/ \E a \in Answers : InputAnswer(a)
  \/ ClearAnswer
  \/ checkAnswer
  \/ \E k \in RevealIds : toggleReveal(k)
  \/ \E s \in SearchTexts : SearchChange(s)
  \/ PagePrev
  \/ PageNext
  \/ \E r \in PageRequests : handlePageChange(r)

Spec == Init /\ [][Next]_vars

\* ------------------------------------------------------------------------
\* The translation-match utility run on its own, on every raw value of a
\* bounded set
\* ------------------------------------------------------------------------

UtilAlphabet == {"a", " ", "|", ",", "[", "]", "\""}

\* the longest raw string
MaxRawLen == 3

RECURSIVE StringsUpTo(_)
StringsUpTo(n) ==
  IF n = 0 THEN {<<>>}
  ELSE LET shorter == StringsUpTo(n - 1) IN
    shorter \cup {Append(x, c) : x \in {y \in shorter : Len(y) = n - 1}, c \in UtilAlphabet}

RawStrings == StringsUpTo(MaxRawLen)

\* the entries of a raw array
RawEntries == { <<>>, <<" ">>, <<"a">>, <<"|">>, <<" ", "a">>, <<"a", ",", "a">> }

\* the longest raw array
MaxRawEntries == 2

RawArrays == UNION {[1..n -> RawEntries] : n \in 0..MaxRawEntries}

RawInputs == {Str(x) : x \in RawStrings} \cup {Arr(x) : x \in RawArrays}

UtilAnswers == { <<>>, <<" ">>, <<"a">>, <<"A", " ">> }

UtilInit ==
  /\ AppInit
  /\ \E t \in RawInputs : util = [UtilOff EXCEPT !.pc = "in", !.t = t]

UtilFrame ==
  UNCHANGED <<appVars, dom, rendered, init, reset, logout, page, op, notice, req, events,
              pageIn>>

\* _toTranslationsArray(t)
UtilParse ==
  /\ util.pc = "in"
  /\ util' = [util EXCEPT !.pc = "parsed", !.alts = ToTranslationsArray(util.t)]
  /\ UtilFrame

\* formatTranslation(t)
UtilFormat ==
  /\ util.pc = "parsed"
  /\ util' = [util EXCEPT !.pc = "shown", !.shown = FormatTranslation(util.t)]
  /\ UtilFrame

\* _toTranslationsArray(formatTranslation(t))
UtilReparse ==
  /\ util.pc = "shown"
  /\ util' = [util EXCEPT !.pc = "reparsed", !.again = ToTranslationsArray(Str(util.shown))]
  /\ UtilFrame

\* _matchesTranslation(a, t)
UtilMatch(a) ==
  /\ util.pc = "reparsed"
  /\ util' = [util EXCEPT !.pc = "matched", !.answer = a,
                          !.matched = MatchesTranslation(a, util.t)]
  /\ UtilFrame

UtilNext ==
  \/ UtilParse
  \/ UtilFormat
  \/ UtilReparse
  \/ \E a \in UtilAnswers : UtilMatch(a)

UtilSpec == UtilInit /\ [][UtilNext]_vars

\* ------------------------------------------------------------------------
\* Properties
\* ------------------------------------------------------------------------

Max2(a, b) == IF a >= b THEN a ELSE b
Min2(a, b) == IF a <= b THEN a ELSE b

\* the largest day_no of the list, 1 when the list is empty
MaxDayNo(vc) ==
  IF Len(vc) = 0 THEN 1
  ELSE CHOOSE m \in {vc[i].day_no : i \in 1..Len(vc)} :
         \A i \in 1..Len(vc) : vc[i].day_no <= m

HasItem(vc, d) == \E i \in 1..Len(vc) : vc[i].day_no = d
ItemOf(vc, d) == vc[CHOOSE i \in 1..Len(vc) : vc[i].day_no = d]

\* ceil(number of rows matching the search text / 10)
PagesNow == TotalPages(Len(FilteredRows(vocab, listSearch)))

\* the lifecycle instances, and those of them that ran to their end
Lifecycles == BagToSet(init)
Finished == {i \in Lifecycles : i.pc = "done"}
Logouts == BagToSet(logout)

InitSuspended == \E i \in Lifecycles : i.pc \notin {"done", "failed"}
ResetSuspended == BagToSet(reset) # {}
LogoutSuspended == \E i \in Logouts : i.pc \in {"post", "get"}

\* the step takes a lifecycle instance from i to j
InitMoved(i, j) == i # j /\ BagIn(i, init) /\ init' = Move(init, i, j)

\* the step is the start of a handler triggered by a user event
UserEvent == events' = events + 1

\* C1: when the lifecycle sequence has run to its end, it has called render()
\* exactly once since the loading render, whatever the backend answered.
C1_ExactlyOneRender == \A i \in Finished : i.renders = 1

\* C2: whenever a render of the main view has just completed, listPage lies in
\* [1, max(1, totalPages)] for the rows that match listSearchText now.
C2_PageClamped ==
  (rendered = "ok" /\ view = "main") => (listPage >= 1 /\ listPage <= Max2(1, PagesNow))

\* C3: no handler triggered by a user event starts while the lifecycle
\* sequence, reset or logout is suspended at an awaited backend call.
C3_HandlersSerialized ==
  [][UserEvent => ~(InitSuspended \/ ResetSuspended \/ LogoutSuspended)]_vars

\* C4: after check answer found a mismatch, lastCheck is {correct: false,
\* expected: the parsed entries of the item's translation joined by " / "}.
C4_ExpectedIsDisplay ==
  (op = "checkAnswer" /\ check.kind = "ng" /\ HasItem(vocab, day))
    => check.gold = FormatTranslation(ItemOf(vocab, day).translation)

\* C5: check answer on a day that has an item, with a matching answer, moves
\* selectedDay up by one below the maximum day_no and leaves it at the maximum;
\* lastCheck becomes {correct: true}, draftAnswer empty, and selectedDay does
\* not exceed the maximum day_no.
C5_CorrectAnswerAdvances ==
  [][(UserEvent /\ op' = "checkAnswer" /\ HasItem(vocab, day)
        /\ MatchesTranslation(answer, ItemOf(vocab, day).translation))
      => /\ day' = (IF day < MaxDayNo(vocab) THEN day + 1 ELSE day)
         /\ day' <= MaxDayNo(vocab)
         /\ check' = [kind |-> "ok", gold |-> <<>>]
         /\ answer' = <<>>
         /\ vocab' = vocab]_vars

C5_Witness ==
  /\ op = "checkAnswer" /\ check.kind = "ok" /\ notice = "all_done"
  /\ day = MaxDayNo(vocab) /\ day > 1 /\ answer = <<>>

DayInRange(d, vc) == d >= 1 /\ d <= Max2(1, MaxDayNo(vc))

\* C6: previous at day 1 and next at the maximum day_no change nothing; a
\* previous or next that moves selectedDay moves it by exactly one and clears
\* draftAnswer and lastCheck; selectedDay in [1, max(1, maximum day_no)] stays
\* in that range.
C6_DayNavigation ==
  [][(UserEvent /\ op' \in {"goPrevDay", "goNextDay"})
      => /\ (op' = "goPrevDay" /\ day = 1) => (appVars' = appVars /\ dom' = dom)
         /\ (op' = "goNextDay" /\ day = MaxDayNo(vocab)) => (appVars' = appVars /\ dom' = dom)
         /\ (op' = "goPrevDay" /\ day > 1) => day' = day - 1
         /\ (op' = "goNextDay" /\ day < MaxDayNo(vocab)) => day' = day + 1
         /\ day' # day => (answer' = <<>> /\ check' = NoCheck)
         /\ DayInRange(day, vocab) => DayInRange(day', vocab')]_vars

C6_Witness ==
  /\ op = "goNextDay" /\ day = 2 /\ MaxDayNo(vocab) > 2
  /\ answer = <<>> /\ check = NoCheck

\* C7: a render of the main view never fails, whether or not the list holds
\* an item for selectedDay.
C7_RenderCompletes == rendered # "threw"

\* C8: when POST /signin, POST /signup, POST /vocab/reset or POST
\* /vocab/today/auto fails, the handler raises a notice and has written no
\* field of the application state: neither its start nor its failure
\* continuation changes one.
C8_FailureWritesNothing ==
  [][/\ (\/ \E i \in Lifecycles, j \in BagToSet(init') :
              /\ InitMoved(i, j)
              /\ \/ i.pc \in {"signin", "signup"} /\ j.pc = "failed"
                 \/ i.pc = "today" /\ j.pc = "done"
         \/ BagIn("post", reset) /\ reset' = reset (-) One("post"))
        => (appVars' = appVars /\ notice' # "none")
     /\ (UserEvent /\ op' \in {"signin", "signup", "resetAll"})
        => appVars' = appVars]_vars

C8_Witness ==
  /\ op = "resetResponse" /\ notice = "reset_failed" /\ ~ResetSuspended
  /\ Len(vocab) > 0 /\ day > 1

LoggedOut ==
  /\ me = <<>> /\ vocab = <<>> /\ random = <<>> /\ day = 1 /\ answer = <<>>
  /\ check = NoCheck /\ listSearch = <<>> /\ listPage = 1 /\ view = "auth"
  /\ dom.view = "auth" /\ rendered = "ok" /\ page # "live"

\* C9: a call of logout issues at most two requests, the GET only after the
\* POST failed, and once its last request has settled, whatever the outcome,
\* the state is cleared, the auth view is rendered and the navigation has been
\* forced.
C9_LogoutAlwaysClears ==
  /\ \A i \in Logouts : i.reqs <= 2 /\ (i.reqs = 2 => i.pc \in {"get", "done"})
  /\ op = "logoutGetResponse" => (BagIn([pc |-> "done", reqs |-> 2], logout) /\ LoggedOut)
  /\ op = "logoutPostResponse" =>
       \/ BagIn([pc |-> "done", reqs |-> 1], logout) /\ LoggedOut
       \/ BagIn([pc |-> "get", reqs |-> 2], logout)

C9_Witness ==
  /\ op = "logoutGetResponse" /\ BagIn([pc |-> "done", reqs |-> 2], logout)
  /\ page = "leaving"

\* C10 as stated: after the page is set to p, listPage is p clamped into
\* [1, max(1, ceil(n / 10))] for the n rows matching the search text.
C10_PageRequestClamps ==
  (op = "handlePageChange" /\ ~req.nan /\ rendered # "threw")
    => listPage = Min2(Max2(req.n, 1), Max2(1, PagesNow))

\* C10 amended: with T the page count of the table on screen, a request p with
\* 1 <= p <= max(1, T) makes listPage p (when the table on screen is current),
\* and any other request (below 1, above max(1, T), not a number) leaves
\* listPage as it was.
C10_PageRequestAcceptsOrRejects ==
  [][(UserEvent /\ op' = "handlePageChange")
      => LET p == req'.n
             inRange == ~req'.nan /\ p >= 1 /\ p <= Max2(1, dom.total)
         IN /\ (inRange /\ dom.total = PagesNow) => listPage' = p
            /\ ~inRange => (listPage' = listPage /\ dom' = dom)]_vars

C10_Witness ==
  /\ op = "handlePageChange" /\ ~req.nan /\ req.n = 5
  /\ dom.total = 3 /\ PagesNow = 3 /\ listPage = 2

\* C11: whenever the parsed set of a raw translation value (a string or a
\* sequence of strings) has exactly one entry, a non-empty string, parsing the
\* display string of that set yields the same single entry, also when the
\* entry contains "," or "|".
C11_DisplayRoundTrip ==
  (util.pc \in {"reparsed", "matched"} /\ Len(util.alts) = 1 /\ util.alts[1] # <<>>)
    => util.again = util.alts

Trimmed(x) == Trim(x) = x

\* C12: for every raw string, every entry of the parsed set is trimmed and
\* non-empty, and an empty or blank answer matches no translation set.
C12_EntriesNonBlank ==
  /\ (util.pc \notin {"off", "in"} /\ util.t.kind = "string") =>
       \A i \in 1..Len(util.alts) : util.alts[i] # <<>> /\ Trimmed(util.alts[i])
  /\ (util.pc = "matched" /\ Trim(util.answer) = <<>>) => ~util.matched

\* C13: in a lifecycle sequence with view = main, the today-ensure request is
\* issued exactly when the list just loaded holds no item dated today, and at
\* most once; after its success the list is fetched again, then the random
\* pick, and the sequence ends with selectedDay = the day_no of the item the
\* request returned; when an item dated today exists no request is issued and
\* only the random pick is refreshed.
C13_TodayEnsure ==
  [][\A i \in Lifecycles, j \in BagToSet(init') : InitMoved(i, j) =>
       /\ j.today <= 1
       /\ i.pc = "list" =>
            /\ j.pc = (IF IsTodaySet(vocab') THEN "random" ELSE "today")
            /\ j.today = (IF IsTodaySet(vocab') THEN 0 ELSE 1)
       /\ i.pc \in {"today", "list2", "random2", "random"} => j.today = i.today
       /\ (i.pc = "today" /\ notice' = "none") => j.pc = "list2"
       /\ i.pc = "list2" =>
            (j.pc = "random2" /\ op' \in {"todayListResponse", "todayListFailed"})
       /\ i.pc = "random2" =>
            /\ j.pc = "done" /\ op' = "todayRandomResponse"
            /\ i.r # 0 => day' = i.r
       /\ i.pc = "random" =>
            /\ j.pc = "done" /\ j.today = 0 /\ op' = "initRandomResponse"
            /\ vocab' = vocab /\ day' = day
    ]_vars

C13_Witness ==
  /\ op = "todayRandomResponse" /\ \E i \in Finished : i.today = 1
  /\ day = 4 /\ HasItem(vocab, 4) /\ view = "main"

\* C14: Check answer while vocabulary holds no item for selectedDay raises a
\* notice, leaves every field of the application state unchanged, starts no
\* backend request and does not render.
C14_CheckWithoutItem ==
  [][(UserEvent /\ op' = "checkAnswer" /\ ~HasItem(vocab, day)) =>
       /\ notice' = "no_item"
       /\ appVars' = appVars
       /\ init' = init /\ reset' = reset /\ logout' = logout
       /\ rendered' = "no" /\ dom' = dom
    ]_vars

C14_Witness ==
  /\ op = "checkAnswer" /\ notice = "no_item"
  /\ Len(vocab) > 0 /\ ~HasItem(vocab, day) /\ check = NoCheck

\* C15: whenever no handler is in progress, the view last mounted is the one
\* selected by the view field; once boot or a sign-in has finished, the Loading
\* or Auth view is not on screen while view = main, whatever calls failed.
C15_MountedMatchesView ==
  /\ (op # "none" /\ ~InitSuspended /\ ~ResetSuspended /\ ~LogoutSuspended) => dom.view = view
  /\ (Finished # {} /\ ~InitSuspended /\ view = "main") => dom.view \notin {"loading", "auth"}

\* the step is loadList's catch: GET /vocab/list failed (the unload of the
\* document is no handler step and leaves op as it was)
ListFetchFailed ==
  /\ op' \in {"initListFailed", "todayListFailed", "resetListFailed"}
  /\ page' = page

\* C16 (as stated): a failed vocabulary list fetch raises a notice and leaves
\* vocabulary and selectedDay at the values they had before the fetch.
C16_ListFailureKeepsState ==
  [][ListFetchFailed => (notice' # "none" /\ vocab' = vocab /\ day' = day)]_vars

\* C16 (amended): a failed vocabulary list fetch raises no notice and does not
\* stop the handler that issued it; it empties vocabulary and sets selectedDay
\* to 1, and that step does not render.
C16_ListFailureEmpties ==
  [][ListFetchFailed =>
       /\ notice' = "none" /\ vocab' = <<>> /\ day' = 1 /\ rendered' = "no"
       /\ op' = "initListFailed" =>
            \E i \in Lifecycles, j \in BagToSet(init') :
              InitMoved(i, j) /\ i.pc = "list" /\ j.pc = "today"
       /\ op' = "todayListFailed" =>
            \E i \in Lifecycles, j \in BagToSet(init') :
              InitMoved(i, j) /\ i.pc = "list2" /\ j.pc = "random2"
       /\ op' = "resetListFailed" => reset' = Move(reset, "list", "random")
    ]_vars

C16_Witness ==
  /\ op = "todayListFailed" /\ \E i \in Lifecycles : i.pc = "random2" /\ i.r = 4
  /\ vocab = <<>> /\ day = 1 /\ notice = "none"

\* the render() called by the last step completed and changed state.listPage
RenderWrote == rendered = "ok" /\ listPage # pageIn

\* C17: building a view never mutates the application state: a render() call
\* leaves every field, listPage included, as the handler that called it set it.
C17_RenderWritesNothing == ~RenderWrote

\* C18: when a reset whose POST /vocab/reset succeeded finishes, selectedDay
\* is 1 (loadList), draftAnswer is empty, lastCheck is none, listSearchText is
\* empty, listPage is 1, revealedKeys is empty, and its render has been called
\* on that state.
C18_ResetLeavesCleared ==
  op = "resetRandomResponse" =>
    /\ day = 1 /\ answer = <<>> /\ check = NoCheck
    /\ listSearch = <<>> /\ listPage = 1 /\ revealed = {}
    /\ rendered # "no" /\ pageIn = 1

\* C19: in every reachable state, session none implies that vocabulary is
\* empty and randomPick is none, also when logout is triggered while a reset,
\* today-ensure or list load is waiting on its backend call.
C19_NoDataWithoutSession == me = <<>> => (vocab = <<>> /\ random = <<>>)

\* C20: in every reachable state, 1 <= selectedDay <= max(1, maximum day_no in
\* vocabulary), whatever the outcomes of the backend calls.
C20_DayWithinList == DayInRange(day, vocab)
====
